---- MODULE Spec2Model ----
(***************************************************************************)
(* The Anthropic client of crates/anthropic/src/anthropic.rs: the two      *)
(* calls complete and stream_completion, the server-sent-event decoder     *)
(* inside stream_completion, and extract_text_from_events.                 *)
(*                                                                         *)
(* Wire text is a sequence of symbols.  The frame prefix and the line      *)
(* terminator are spelled character by character; a JSON document is       *)
(* spelled as "{", one symbol per member, "}".  A transport chunk may end  *)
(* between any two symbols.                                                *)
(***************************************************************************)
EXTENDS Integers, Sequences, FiniteSets, TLC

(***************************************************************************)
(* Bounds of the model.                                                    *)
(***************************************************************************)
MaxLines == 2
MaxChunk == 3
MaxEvents == 3

(***************************************************************************)
(* Result<T>, Option<T>.                                                   *)
(***************************************************************************)
Ok(x) == [ok |-> TRUE, val |-> x]
Err(e) == [ok |-> FALSE, err |-> e]
Some(x) == [some |-> TRUE, val |-> x]
None == [some |-> FALSE]

(***************************************************************************)
(* serde_json::Value, as far as the schema of this file looks into it.     *)
(***************************************************************************)
Null == [j |-> "null"]
Str(s) == [j |-> "str", s |-> s]
Num(n) == [j |-> "num", n |-> n]
Arr(a) == [j |-> "arr", a |-> a]
Obj(o) == [j |-> "obj", o |-> o]

IsStr(v) == v.j = "str"
IsNum(v) == v.j = "num" /\ v.n >= 0
IsObj(v) == v.j = "obj"
IsArr(v) == v.j = "arr"
Has(v, k) == k \in DOMAIN v.o
\* A member that is present and not null.
Present(v, k) == Has(v, k) /\ v.o[k].j # "null"

(***************************************************************************)
(* The JSON values that occur as member values on the wire.                *)
(***************************************************************************)
TextBlockValue == Obj([type |-> Str("text"), text |-> Str("Hello")])
ToolUseBlockValue ==
    Obj([type |-> Str("tool_use"), id |-> Str("tu_1"), name |-> Str("get_weather"),
         input |-> Obj([city |-> Str("Oslo")])])
TextDeltaValue == Obj([type |-> Str("text_delta"), text |-> Str(" world")])
InputJsonDeltaValue ==
    Obj([type |-> Str("input_json_delta"), partial_json |-> Str("{\"city\":")])
UnknownDeltaValue == Obj([type |-> Str("signature_delta"), text |-> Str("x")])
OverloadedValue == Obj([type |-> Str("overloaded_error"), message |-> Str("busy")])
InvalidRequestValue ==
    Obj([type |-> Str("invalid_request_error"), message |-> Str("bad")])
UsageValue == Obj([input_tokens |-> Num(3)])
StopDeltaValue == Obj([stop_reason |-> Str("end_turn"), stop_sequence |-> Null])
ResponseValue ==
    Obj([id |-> Str("msg_1"), type |-> Str("message"), role |-> Str("assistant"),
         content |-> Arr(<<TextBlockValue>>), model |-> Str("claude-3-opus-20240229"),
         usage |-> UsageValue])

(***************************************************************************)
(* The member symbols of the wire alphabet and the member each spells.     *)
(***************************************************************************)
MemberOf(sym) ==
    CASE sym = "'type':'ping'" -> [k |-> "type", v |-> Str("ping")]
      [] sym = "'type':'message_start'" -> [k |-> "type", v |-> Str("message_start")]
      [] sym = "'type':'content_block_start'" ->
            [k |-> "type", v |-> Str("content_block_start")]
      [] sym = "'type':'content_block_delta'" ->
            [k |-> "type", v |-> Str("content_block_delta")]
      [] sym = "'type':'content_block_stop'" ->
            [k |-> "type", v |-> Str("content_block_stop")]
      [] sym = "'type':'message_delta'" -> [k |-> "type", v |-> Str("message_delta")]
      [] sym = "'type':'message_stop'" -> [k |-> "type", v |-> Str("message_stop")]
      [] sym = "'type':'error'" -> [k |-> "type", v |-> Str("error")]
      [] sym = "'type':'message'" -> [k |-> "type", v |-> Str("message")]
      [] sym = "'type':'content_block_end'" ->
            [k |-> "type", v |-> Str("content_block_end")]
      [] sym = "'type':7" -> [k |-> "type", v |-> Num(7)]
      [] sym = "'index':0" -> [k |-> "index", v |-> Num(0)]
      [] sym = "'index':-1" -> [k |-> "index", v |-> Num(-1)]
      [] sym = "'content_block':{text}" -> [k |-> "content_block", v |-> TextBlockValue]
      [] sym = "'content_block':{tool_use}" ->
            [k |-> "content_block", v |-> ToolUseBlockValue]
      [] sym = "'delta':{text_delta}" -> [k |-> "delta", v |-> TextDeltaValue]
      [] sym = "'delta':{input_json_delta}" -> [k |-> "delta", v |-> InputJsonDeltaValue]
      [] sym = "'delta':{signature_delta}" -> [k |-> "delta", v |-> UnknownDeltaValue]
      [] sym = "'delta':{stop}" -> [k |-> "delta", v |-> StopDeltaValue]
      [] sym = "'usage':{}" -> [k |-> "usage", v |-> UsageValue]
      [] sym = "'message':{response}" -> [k |-> "message", v |-> ResponseValue]
      [] sym = "'error':{overloaded}" -> [k |-> "error", v |-> OverloadedValue]
      [] sym = "'error':{invalid_request}" -> [k |-> "error", v |-> InvalidRequestValue]
      [] sym = "'error':'busy'" -> [k |-> "error", v |-> Str("busy")]
      [] sym = "'id':'msg_1'" -> [k |-> "id", v |-> Str("msg_1")]
      [] sym = "'role':'assistant'" -> [k |-> "role", v |-> Str("assistant")]
      [] sym = "'role':'system'" -> [k |-> "role", v |-> Str("system")]
      [] sym = "'content':[text]" -> [k |-> "content", v |-> Arr(<<TextBlockValue>>)]
      [] sym = "'model':'claude-3-opus-20240229'" ->
            [k |-> "model", v |-> Str("claude-3-opus-20240229")]
      [] sym = "'extra':1" -> [k |-> "extra", v |-> Num(1)]

MemberSyms ==
    {"'type':'ping'", "'type':'message_start'", "'type':'content_block_start'",
     "'type':'content_block_delta'", "'type':'content_block_stop'",
     "'type':'message_delta'", "'type':'message_stop'", "'type':'error'",
     "'type':'message'", "'type':'content_block_end'", "'type':7",
     "'index':0", "'index':-1",
     "'content_block':{text}", "'content_block':{tool_use}",
     "'delta':{text_delta}", "'delta':{input_json_delta}", "'delta':{signature_delta}",
     "'delta':{stop}", "'usage':{}", "'message':{response}",
     "'error':{overloaded}", "'error':{invalid_request}", "'error':'busy'",
     "'id':'msg_1'", "'role':'assistant'", "'role':'system'", "'content':[text]",
     "'model':'claude-3-opus-20240229'", "'extra':1"}

(***************************************************************************)
(* serde_json::from_str up to the schema: the text must be one complete    *)
(* object, "{" members "}", no member named twice.                         *)
(***************************************************************************)
WellFormed(text) ==
    /\ Len(text) >= 2
    /\ text[1] = "{"
    /\ text[Len(text)] = "}"
    /\ \A i \in 2..(Len(text) - 1) : text[i] \in MemberSyms
    /\ \A i, k \in 2..(Len(text) - 1) :
          MemberOf(text[i]).k = MemberOf(text[k]).k => i = k

ParseJson(text) ==
    IF WellFormed(text)
    THEN LET members == {MemberOf(text[i]) : i \in 2..(Len(text) - 1)}
         IN  Ok(Obj([k \in {m.k : m \in members} |->
                        (CHOOSE m \in members : m.k = k).v]))
    ELSE Err([kind |-> "json"])

(***************************************************************************)
(* The derived Deserialize of the schema types.  A decode failure is the   *)
(* serde_json error; its text is not modelled.                             *)
(***************************************************************************)
JsonError == Err([kind |-> "json"])

\* An internally tagged enum, #[serde(tag = "type")]: an object with a string tag.
Tagged(v) == IsObj(v) /\ Has(v, "type") /\ IsStr(v.o["type"])
HasStr(v, k) == Has(v, k) /\ IsStr(v.o[k])
HasNum(v, k) == Has(v, k) /\ IsNum(v.o[k])
\* Option<String>, Option<u32>: a missing or null member is None.
OptStrOk(v, k) == Present(v, k) => IsStr(v.o[k])
OptNumOk(v, k) == Present(v, k) => IsNum(v.o[k])
OptStr(v, k) == IF Present(v, k) THEN Some(v.o[k].s) ELSE None
OptNum(v, k) == IF Present(v, k) THEN Some(v.o[k].n) ELSE None

DecodeRole(v) ==
    IF IsStr(v) /\ v.s \in {"user", "assistant"}
    THEN Ok(IF v.s = "user" THEN "User" ELSE "Assistant")
    ELSE JsonError

DecodeImageSource(v) ==
    IF IsObj(v) /\ HasStr(v, "type") /\ HasStr(v, "media_type") /\ HasStr(v, "data")
    THEN Ok([source_type |-> v.o["type"].s, media_type |-> v.o["media_type"].s,
             data |-> v.o["data"].s])
    ELSE JsonError

DecodeContent(v) ==
    IF ~Tagged(v) THEN JsonError
    ELSE LET tag == v.o["type"].s IN
      CASE tag = "text" ->
            IF HasStr(v, "text")
            THEN Ok([type |-> "Text", text |-> v.o["text"].s])
            ELSE JsonError
        [] tag = "image" ->
            IF Has(v, "source") /\ DecodeImageSource(v.o["source"]).ok
            THEN Ok([type |-> "Image", source |-> DecodeImageSource(v.o["source"]).val])
            ELSE JsonError
        [] tag = "tool_use" ->
            IF HasStr(v, "id") /\ HasStr(v, "name") /\ Has(v, "input")
            THEN Ok([type |-> "ToolUse", id |-> v.o["id"].s, name |-> v.o["name"].s,
                     input |-> v.o["input"]])
            ELSE JsonError
        [] tag = "tool_result" ->
            IF HasStr(v, "tool_use_id") /\ HasStr(v, "content")
            THEN Ok([type |-> "ToolResult", tool_use_id |-> v.o["tool_use_id"].s,
                     content |-> v.o["content"].s])
            ELSE JsonError
        [] OTHER -> JsonError

DecodeContentDelta(v) ==
    IF ~Tagged(v) THEN JsonError
    ELSE LET tag == v.o["type"].s IN
      CASE tag = "text_delta" ->
            IF HasStr(v, "text")
            THEN Ok([type |-> "TextDelta", text |-> v.o["text"].s])
            ELSE JsonError
        [] tag = "input_json_delta" ->
            IF HasStr(v, "partial_json")
            THEN Ok([type |-> "InputJsonDelta", partial_json |-> v.o["partial_json"].s])
            ELSE JsonError
        [] OTHER -> JsonError

DecodeUsage(v) ==
    IF IsObj(v) /\ OptNumOk(v, "input_tokens") /\ OptNumOk(v, "output_tokens")
    THEN Ok([input_tokens |-> OptNum(v, "input_tokens"),
             output_tokens |-> OptNum(v, "output_tokens")])
    ELSE JsonError

DecodeMessageDelta(v) ==
    IF IsObj(v) /\ OptStrOk(v, "stop_reason") /\ OptStrOk(v, "stop_sequence")
    THEN Ok([stop_reason |-> OptStr(v, "stop_reason"),
             stop_sequence |-> OptStr(v, "stop_sequence")])
    ELSE JsonError

DecodeApiError(v) ==
    IF IsObj(v) /\ HasStr(v, "type") /\ HasStr(v, "message")
    THEN Ok([error_type |-> v.o["type"].s, message |-> v.o["message"].s])
    ELSE JsonError

DecodeContentVec(v) ==
    IF IsArr(v) /\ \A i \in 1..Len(v.a) : DecodeContent(v.a[i]).ok
    THEN Ok([i \in 1..Len(v.a) |-> DecodeContent(v.a[i]).val])
    ELSE JsonError

DecodeResponse(v) ==
    IF /\ IsObj(v)
       /\ HasStr(v, "id")
       /\ HasStr(v, "type")
       /\ Has(v, "role") /\ DecodeRole(v.o["role"]).ok
       /\ Has(v, "content") /\ DecodeContentVec(v.o["content"]).ok
       /\ HasStr(v, "model")
       /\ OptStrOk(v, "stop_reason")
       /\ OptStrOk(v, "stop_sequence")
       /\ Has(v, "usage") /\ DecodeUsage(v.o["usage"]).ok
    THEN Ok([id |-> v.o["id"].s, response_type |-> v.o["type"].s,
             role |-> DecodeRole(v.o["role"]).val,
             content |-> DecodeContentVec(v.o["content"]).val,
             model |-> v.o["model"].s,
             stop_reason |-> OptStr(v, "stop_reason"),
             stop_sequence |-> OptStr(v, "stop_sequence"),
             usage |-> DecodeUsage(v.o["usage"]).val])
    ELSE JsonError

DecodeEvent(v) ==
    IF ~Tagged(v) THEN JsonError
    ELSE LET tag == v.o["type"].s IN
      CASE tag = "message_start" ->
            IF Has(v, "message") /\ DecodeResponse(v.o["message"]).ok
            THEN Ok([type |-> "MessageStart",
                     message |-> DecodeResponse(v.o["message"]).val])
            ELSE JsonError
        [] tag = "content_block_start" ->
            IF HasNum(v, "index") /\ Has(v, "content_block")
                  /\ DecodeContent(v.o["content_block"]).ok
            THEN Ok([type |-> "ContentBlockStart", index |-> v.o["index"].n,
                     content_block |-> DecodeContent(v.o["content_block"]).val])
            ELSE JsonError
        [] tag = "content_block_delta" ->
            IF HasNum(v, "index") /\ Has(v, "delta")
                  /\ DecodeContentDelta(v.o["delta"]).ok
            THEN Ok([type |-> "ContentBlockDelta", index |-> v.o["index"].n,
                     delta |-> DecodeContentDelta(v.o["delta"]).val])
            ELSE JsonError
        [] tag = "content_block_stop" ->
            IF HasNum(v, "index")
            THEN Ok([type |-> "ContentBlockStop", index |-> v.o["index"].n])
            ELSE JsonError
        [] tag = "message_delta" ->
            IF Has(v, "delta") /\ DecodeMessageDelta(v.o["delta"]).ok
                  /\ Has(v, "usage") /\ DecodeUsage(v.o["usage"]).ok
            THEN Ok([type |-> "MessageDelta",
                     delta |-> DecodeMessageDelta(v.o["delta"]).val,
                     usage |-> DecodeUsage(v.o["usage"]).val])
            ELSE JsonError
        [] tag = "message_stop" -> Ok([type |-> "MessageStop"])
        [] tag = "ping" -> Ok([type |-> "Ping"])
        [] tag = "error" ->
            IF Has(v, "error") /\ DecodeApiError(v.o["error"]).ok
            THEN Ok([type |-> "Error", error |-> DecodeApiError(v.o["error"]).val])
            ELSE JsonError
        [] OTHER -> JsonError

\* EventFromStr with a catch-all variant: a tag Event does not have decodes as Ping.
EventFromStrWithCatchAll(text) ==
    IF ~ParseJson(text).ok THEN JsonError
    ELSE IF Tagged(ParseJson(text).val) /\ DecodeEvent(ParseJson(text).val) = JsonError
                /\ ParseJson(text).val.o["type"].s
                      \notin {"message_start", "content_block_start",
                              "content_block_delta", "content_block_stop",
                              "message_delta", "message_stop", "ping", "error"}
         THEN Ok([type |-> "Ping"])
         ELSE DecodeEvent(ParseJson(text).val)

\* serde_json::from_str::<Event>(text) and serde_json::from_slice::<Response>(body).
EventFromStr(text) ==
    IF ParseJson(text).ok THEN DecodeEvent(ParseJson(text).val) ELSE JsonError
ResponseFromSlice(text) ==
    IF ParseJson(text).ok THEN DecodeResponse(ParseJson(text).val) ELSE JsonError

(***************************************************************************)
(* Wire text.                                                              *)
(***************************************************************************)
Prefix == <<"d", "a", "t", "a", ":", " ">>
NL == "\n"
\* A byte that is not valid UTF-8.
BadByte == "0xFF"

PingJson == <<"{", "'type':'ping'", "}">>
MessageStopJson == <<"{", "'type':'message_stop'", "}">>
BlockStartTextJson ==
    <<"{", "'type':'content_block_start'", "'index':0", "'content_block':{text}", "}">>
BlockDeltaTextJson ==
    <<"{", "'type':'content_block_delta'", "'index':0", "'delta':{text_delta}", "}">>
BlockStopJson == <<"{", "'type':'content_block_stop'", "'index':0", "}">>
ErrorJson == <<"{", "'type':'error'", "'error':{overloaded}", "}">>
InvalidRequestJson == <<"{", "'type':'error'", "'error':{invalid_request}", "}">>
UnknownTypeJson == <<"{", "'type':'content_block_end'", "'index':0", "}">>
TruncatedJson == <<"{", "'type':'ping'">>
ResponseJson ==
    <<"{", "'id':'msg_1'", "'type':'message'", "'role':'assistant'", "'content':[text]",
      "'model':'claude-3-opus-20240229'", "'usage':{}", "}">>
ResponseNoUsageJson ==
    <<"{", "'id':'msg_1'", "'type':'message'", "'role':'assistant'", "'content':[text]",
      "'model':'claude-3-opus-20240229'", "}">>

\* str::strip_prefix
StartsWith(line, prefix) ==
    Len(line) >= Len(prefix) /\ SubSeq(line, 1, Len(prefix)) = prefix
StripPrefix(line, prefix) ==
    IF StartsWith(line, prefix)
    THEN Some(SubSeq(line, Len(prefix) + 1, Len(line)))
    ELSE None

\* std::str::from_utf8
FromUtf8(bytes) ==
    IF \A i \in 1..Len(bytes) : bytes[i] # BadByte
    THEN Ok(bytes)
    ELSE Err([kind |-> "utf8"])

\* http::StatusCode::is_success
IsSuccess(code) == code >= 200 /\ code < 300

(***************************************************************************)
(* The errors the calls build with anyhow!: each records what its message  *)
(* is formatted from.                                                      *)
(***************************************************************************)
api_error_to_err(error) ==
    [kind |-> "api_error", error_type |-> error.error_type, message |-> error.message]
\* FailedToConnect without the status.
FailedToConnectNoStatus(code, body_str) ==
    [kind |-> "failed_to_connect", body |-> body_str]
FailedToConnect(code, body_str) ==
    [kind |-> "failed_to_connect", status |-> code, body |-> body_str]
UnexpectedSuccess(body_str) == [kind |-> "unexpected_success", body |-> body_str]
IoError == [kind |-> "io"]

\* FilterMapLine with a frame that does not decode dropped.
FilterMapLineDropsFailures(line) ==
    IF line.ok
    THEN LET stripped == StripPrefix(line.val, Prefix)
         IN  IF stripped.some /\ EventFromStr(stripped.val).ok
             THEN Some(EventFromStr(stripped.val))
             ELSE None
    ELSE Some(Err(line.err))

\* FilterMapLine with a line that lacks the prefix decoded whole.
FilterMapLineKeepsOtherLines(line) ==
    IF line.ok
    THEN LET stripped == StripPrefix(line.val, Prefix)
         IN  IF stripped.some
             THEN Some(EventFromStr(stripped.val))
             ELSE Some(EventFromStr(line.val))
    ELSE Some(Err(line.err))

\* FilterMapLine with an Error event turned into a failure by the decoder.
FilterMapLineFailsOnError(line) ==
    IF line.ok
    THEN LET stripped == StripPrefix(line.val, Prefix)
         IN  IF stripped.some
             THEN IF EventFromStr(stripped.val).ok
                        /\ EventFromStr(stripped.val).val.type = "Error"
                  THEN Some(Err(api_error_to_err(EventFromStr(stripped.val).val.error)))
                  ELSE Some(EventFromStr(stripped.val))
             ELSE None
    ELSE Some(Err(line.err))

(***************************************************************************)
(* stream_completion, success arm: the closure given to filter_map over    *)
(* reader.lines().  `line` is a Result<String>; the value is Some(item) or *)
(* None.                                                                   *)
(***************************************************************************)
FilterMapLine(line) ==
    IF line.ok
    THEN LET stripped == StripPrefix(line.val, Prefix)
         IN  IF stripped.some
             THEN Some(EventFromStr(stripped.val))
             ELSE None
    ELSE Some(Err(line.err))

\* ExtractItem with an upstream failure wrapped in a failure of its own.
ExtractItemWrapsFailure(response) ==
    IF response.ok
    THEN LET event == response.val IN
      CASE event.type = "ContentBlockStart" ->
            IF event.content_block.type = "Text"
            THEN Some(Ok(event.content_block.text))
            ELSE None
        [] event.type = "ContentBlockDelta" ->
            IF event.delta.type = "TextDelta"
            THEN Some(Ok(event.delta.text))
            ELSE None
        [] event.type = "Error" -> Some(Err(api_error_to_err(event.error)))
        [] OTHER -> None
    ELSE Some(Err([kind |-> "extract", source |-> response.err]))

\* ExtractItem with an Error event filtered out like any other event.
ExtractItemDropsError(response) ==
    IF response.ok
    THEN LET event == response.val IN
      CASE event.type = "ContentBlockStart" ->
            IF event.content_block.type = "Text"
            THEN Some(Ok(event.content_block.text))
            ELSE None
        [] event.type = "ContentBlockDelta" ->
            IF event.delta.type = "TextDelta"
            THEN Some(Ok(event.delta.text))
            ELSE None
        [] OTHER -> None
    ELSE Some(Err(response.err))

\* ExtractItem with every delta taken for text.
ExtractItemAnyDelta(response) ==
    IF response.ok
    THEN LET event == response.val IN
      CASE event.type = "ContentBlockStart" ->
            IF event.content_block.type = "Text"
            THEN Some(Ok(event.content_block.text))
            ELSE None
        [] event.type = "ContentBlockDelta" ->
            IF event.delta.type = "TextDelta"
            THEN Some(Ok(event.delta.text))
            ELSE Some(Ok(event.delta.partial_json))
        [] event.type = "Error" -> Some(Err(api_error_to_err(event.error)))
        [] OTHER -> None
    ELSE Some(Err(response.err))

(***************************************************************************)
(* extract_text_from_events: the closure given to filter_map.              *)
(***************************************************************************)
ExtractItem(response) ==
    IF response.ok
    THEN LET event == response.val IN
      CASE event.type = "ContentBlockStart" ->
            IF event.content_block.type = "Text"
            THEN Some(Ok(event.content_block.text))
            ELSE None
        [] event.type = "ContentBlockDelta" ->
            IF event.delta.type = "TextDelta"
            THEN Some(Ok(event.delta.text))
            ELSE None
        [] event.type = "Error" -> Some(Err(api_error_to_err(event.error)))
        [] OTHER -> None
    ELSE Some(Err(response.err))

\* Yield with the new item put first.
YieldFirst(items, mapped) == IF mapped.some THEN <<mapped.val>> \o items ELSE items

\* StreamExt::filter_map: an item the closure maps to Some is yielded next.
Yield(items, mapped) == IF mapped.some THEN Append(items, mapped.val) ELSE items

\* StreamErrorResult with a body that decodes as another event reported like one that
\* does not decode.
StreamErrorResultTwoArms(code, bytes) ==
    IF ~FromUtf8(bytes).ok THEN Err(FromUtf8(bytes).err)
    ELSE LET body_str == FromUtf8(bytes).val
             decoded == EventFromStr(body_str)
         IN  IF decoded.ok /\ decoded.val.type = "Error"
             THEN Err(api_error_to_err(decoded.val.error))
             ELSE Err(FailedToConnect(code, body_str))

(***************************************************************************)
(* stream_completion, failure arm (body fully read), and complete.         *)
(***************************************************************************)
StreamErrorResult(code, bytes) ==
    IF ~FromUtf8(bytes).ok THEN Err(FromUtf8(bytes).err)
    ELSE LET body_str == FromUtf8(bytes).val
             decoded == EventFromStr(body_str)
         IN  IF decoded.ok
             THEN IF decoded.val.type = "Error"
                  THEN Err(api_error_to_err(decoded.val.error))
                  ELSE Err(UnexpectedSuccess(body_str))
             ELSE Err(FailedToConnect(code, body_str))

CompleteResult(code, bytes) ==
    IF IsSuccess(code)
    THEN ResponseFromSlice(bytes)
    ELSE IF ~FromUtf8(bytes).ok THEN Err(FromUtf8(bytes).err)
         ELSE Err(FailedToConnect(code, FromUtf8(bytes).val))

(***************************************************************************)
(* The responses the server may give.                                      *)
(***************************************************************************)
BlockStartToolJson ==
    <<"{", "'type':'content_block_start'", "'index':0", "'content_block':{tool_use}", "}">>
BlockDeltaInputJson ==
    <<"{", "'type':'content_block_delta'", "'index':0", "'delta':{input_json_delta}", "}">>
MessageStartJson == <<"{", "'type':'message_start'", "'message':{response}", "}">>
MessageDeltaJson == <<"{", "'type':'message_delta'", "'delta':{stop}", "'usage':{}", "}">>

BlankLine == <<>>
EventFieldLine == <<"e", "v", "e", "n", "t", ":", " ", "p", "i", "n", "g">>
\* "data:" with no space after the colon.
NoSpaceLine == <<"d", "a", "t", "a", ":">> \o PingJson

StreamLines ==
    {BlankLine, EventFieldLine, NoSpaceLine,
     Prefix \o PingJson, Prefix \o BlockStartTextJson, Prefix \o BlockDeltaTextJson,
     Prefix \o BlockStopJson, Prefix \o MessageStopJson, Prefix \o ErrorJson,
     Prefix \o UnknownTypeJson, Prefix \o TruncatedJson}

RECURSIVE Concat(_)
Concat(ls) == IF ls = <<>> THEN <<>> ELSE Head(ls) \o <<NL>> \o Concat(Tail(ls))

\* The lines ls, each ended by a newline; the last one's newline is left off
\* when the server closes the body without it.
BodyOf(ls, terminated) ==
    IF terminated \/ ls = <<>>
    THEN Concat(ls)
    ELSE SubSeq(Concat(ls), 1, Len(Concat(ls)) - 1)

StreamBodies ==
    {BodyOf(ls, t) : ls \in UNION {[1..n -> StreamLines] : n \in 0..MaxLines},
                     t \in BOOLEAN}

HtmlBody == <<"<", "h", "t", "m", "l", ">">>
BadUtf8Body == <<"{", BadByte, "}">>
DocBodies ==
    {InvalidRequestJson, ErrorJson, PingJson, MessageStopJson, ResponseJson,
     ResponseNoUsageJson, TruncatedJson, UnknownTypeJson, HtmlBody, BadUtf8Body, <<>>}

(***************************************************************************)
(* The derived Serialize of Request and of what it holds: the value        *)
(* serde_json::to_string spells.                                           *)
(***************************************************************************)
Bool(b) == [j |-> "bool", b |-> b]

SerializeRole(role) == Str(IF role = "User" THEN "user" ELSE "assistant")

SerializeImageSource(source) ==
    Obj([type |-> Str(source.source_type), media_type |-> Str(source.media_type),
         data |-> Str(source.data)])

SerializeContent(content) ==
    CASE content.type = "Text" ->
            Obj([type |-> Str("text"), text |-> Str(content.text)])
      [] content.type = "Image" ->
            Obj([type |-> Str("image"), source |-> SerializeImageSource(content.source)])
      [] content.type = "ToolUse" ->
            Obj([type |-> Str("tool_use"), id |-> Str(content.id),
                 name |-> Str(content.name), input |-> content.input])
      [] content.type = "ToolResult" ->
            Obj([type |-> Str("tool_result"), tool_use_id |-> Str(content.tool_use_id),
                 content |-> Str(content.content)])

SerializeMessage(message) ==
    Obj([role |-> SerializeRole(message.role),
         content |-> Arr([i \in 1..Len(message.content) |->
                            SerializeContent(message.content[i])])])

SerializeTool(tool) ==
    Obj([name |-> Str(tool.name), description |-> Str(tool.description),
         input_schema |-> tool.input_schema])

\* #[serde(tag = "type", rename_all = "lowercase")]
SerializeToolChoice(choice) ==
    CASE choice.type = "Auto" -> Obj([type |-> Str("auto")])
      [] choice.type = "Any" -> Obj([type |-> Str("any")])
      [] choice.type = "Tool" -> Obj([type |-> Str("tool"), name |-> Str(choice.name)])

\* An Option member with no attribute: None is spelled null.
SerializeOptStr(opt) == IF opt.some THEN Str(opt.val) ELSE Null

SerializeMetadata(metadata) == Obj([user_id |-> SerializeOptStr(metadata.user_id)])

\* The members of Request that are written: skip_serializing_if leaves out an
\* empty Vec and a None.
RequestKeys(r) ==
    {"model", "max_tokens", "messages"}
        \cup (IF r.tools = <<>> THEN {} ELSE {"tools"})
        \cup (IF r.tool_choice.some THEN {"tool_choice"} ELSE {})
        \cup (IF r.system.some THEN {"system"} ELSE {})
        \cup (IF r.metadata.some THEN {"metadata"} ELSE {})
        \cup (IF r.stop_sequences = <<>> THEN {} ELSE {"stop_sequences"})
        \cup (IF r.temperature.some THEN {"temperature"} ELSE {})
        \cup (IF r.top_k.some THEN {"top_k"} ELSE {})
        \cup (IF r.top_p.some THEN {"top_p"} ELSE {})

RequestMember(r, k) ==
    CASE k = "model" -> Str(r.model)
      [] k = "max_tokens" -> Num(r.max_tokens)
      [] k = "messages" ->
            Arr([i \in 1..Len(r.messages) |-> SerializeMessage(r.messages[i])])
      [] k = "tools" -> Arr([i \in 1..Len(r.tools) |-> SerializeTool(r.tools[i])])
      [] k = "tool_choice" -> SerializeToolChoice(r.tool_choice.val)
      [] k = "system" -> Str(r.system.val)
      [] k = "metadata" -> SerializeMetadata(r.metadata.val)
      [] k = "stop_sequences" ->
            Arr([i \in 1..Len(r.stop_sequences) |-> Str(r.stop_sequences[i])])
      [] k = "temperature" -> Num(r.temperature.val)
      [] k = "top_k" -> Num(r.top_k.val)
      [] k = "top_p" -> Num(r.top_p.val)

SerializeRequest(r) == Obj([k \in RequestKeys(r) |-> RequestMember(r, k)])

\* StreamingRequest: #[serde(flatten)] base, then stream.
SerializeStreamingRequest(r) ==
    Obj([k \in RequestKeys(r.base) \cup {"stream"} |->
            IF k = "stream" THEN Bool(r.stream) ELSE RequestMember(r.base, k)])

\* The body each call sends for a request.
SerializedRequest(fn, r) ==
    IF fn = "stream_completion"
    THEN SerializeStreamingRequest([base |-> r, stream |-> TRUE])
    ELSE SerializeRequest(r)

(***************************************************************************)
(* The requests a caller may make.                                         *)
(***************************************************************************)
UserMessage == [role |-> "User", content |-> <<[type |-> "Text", text |-> "Hi"]>>]
WeatherTool ==
    [name |-> "get_weather", description |-> "Weather of a city",
     input_schema |-> Obj([type |-> Str("object")])]

Requests ==
    [model : {"claude-3-opus-20240229"},
     max_tokens : {1024},
     messages : {<<UserMessage>>},
     tools : {<<>>, <<WeatherTool>>},
     tool_choice : {None, Some([type |-> "Auto"]),
                    Some([type |-> "Tool", name |-> "get_weather"])},
     system : {None, Some("Be brief.")},
     metadata : {None, Some([user_id |-> None]), Some([user_id |-> Some("u_1")])},
     stop_sequences : {<<>>, <<"END">>},
     temperature : {None, Some(1)},
     top_k : {None, Some(40)},
     top_p : {None, Some(1)}]

\* The request with every optional member unset.
BareRequest ==
    [model |-> "claude-3-opus-20240229", max_tokens |-> 1024,
     messages |-> <<UserMessage>>, tools |-> <<>>, tool_choice |-> None,
     system |-> None, metadata |-> None, stop_sequences |-> <<>>,
     temperature |-> None, top_k |-> None, top_p |-> None]

Statuses == {200, 400, 529}
Calls == {"complete", "stream_completion"}

(***************************************************************************)
(* Model: the catalog, id() and from_id().  An identifier is the sequence  *)
(* of its characters, so that starts_with is a comparison of characters.   *)
(***************************************************************************)
Claude3_5SonnetStem ==
    <<"c", "l", "a", "u", "d", "e", "-", "3", "-", "5", "-", "s", "o", "n", "n", "e", "t">>
Claude3OpusStem ==
    <<"c", "l", "a", "u", "d", "e", "-", "3", "-", "o", "p", "u", "s">>
Claude3SonnetStem ==
    <<"c", "l", "a", "u", "d", "e", "-", "3", "-", "s", "o", "n", "n", "e", "t">>
Claude3HaikuStem ==
    <<"c", "l", "a", "u", "d", "e", "-", "3", "-", "h", "a", "i", "k", "u">>
Date20240620 == <<"-", "2", "0", "2", "4", "0", "6", "2", "0">>
Date20240229 == <<"-", "2", "0", "2", "4", "0", "2", "2", "9">>
Date20240307 == <<"-", "2", "0", "2", "4", "0", "3", "0", "7">>

Claude3_5Sonnet == [type |-> "Claude3_5Sonnet"]
Claude3Opus == [type |-> "Claude3Opus"]
Claude3Sonnet == [type |-> "Claude3Sonnet"]
Claude3Haiku == [type |-> "Claude3Haiku"]
Custom(name, max_tokens, tool_override) ==
    [type |-> "Custom", name |-> name, max_tokens |-> max_tokens,
     tool_override |-> tool_override]

\* #[default]
DefaultModel == Claude3_5Sonnet

from_id(id) ==
    IF StartsWith(id, Claude3_5SonnetStem) THEN Ok(Claude3_5Sonnet)
    ELSE IF StartsWith(id, Claude3OpusStem) THEN Ok(Claude3Opus)
    ELSE IF StartsWith(id, Claude3SonnetStem) THEN Ok(Claude3Sonnet)
    ELSE IF StartsWith(id, Claude3HaikuStem) THEN Ok(Claude3Haiku)
    ELSE Err([kind |-> "invalid_model_id"])

id(m) ==
    CASE m.type = "Claude3_5Sonnet" -> Claude3_5SonnetStem \o Date20240620
      [] m.type = "Claude3Opus" -> Claude3OpusStem \o Date20240229
      [] m.type = "Claude3Sonnet" -> Claude3SonnetStem \o Date20240229
      [] m.type = "Claude3Haiku" -> Claude3OpusStem \o Date20240307
      [] m.type = "Custom" -> m.name

tool_model_id(m) ==
    IF m.type = "Custom" /\ m.tool_override.some
    THEN m.tool_override.val
    ELSE id(m)

\* The models a caller may hold: the four of the catalog and custom ones, some of
\* them named like a catalog model.
CustomNames ==
    {<<"m", "y", "-", "m", "o", "d", "e", "l">>,
     <<"c", "l", "a", "u", "d", "e", "-", "2">>,
     <<"c", "l", "a", "u", "d", "e", "-", "3">>,
     Claude3HaikuStem,
     Claude3HaikuStem \o Date20240307,
     Claude3OpusStem \o <<"-", "l", "a", "t", "e", "s", "t">>}
Models ==
    {Claude3_5Sonnet, Claude3Opus, Claude3Sonnet, Claude3Haiku}
        \cup {Custom(name, max_tokens, tool_override) :
                name \in CustomNames,
                max_tokens \in {4096, 200000},
                tool_override \in {None, Some(Claude3HaikuStem \o Date20240307)}}

\* The stream a stream_completion call returns, and the transport under it: the
\* body the server sends, the bytes sent so far, the BufReader's buffer, the partial
\* line of lines(), and the items the two closures have yielded.
StreamOf(text) ==
    [pc |-> "streaming", body |-> text, transport |-> "open", sent |-> 0,
     rbuf |-> <<>>, linebuf |-> <<>>, events |-> <<>>, texts |-> <<>>]

\* No second call has been made.
NoStream == [StreamOf(<<>>) EXCEPT !.pc = "none", !.transport = "closed"]

VARIABLES
    call,       \* the function called
    status,     \* the status of the response the server gives
    body,       \* the body of that response, as the server sends it
    pc,         \* where the call is
    result,     \* what the call returned: None while it runs
    transport,  \* "open", "closed", "failed" (not yet seen by a read), "dead"
    sent,       \* how much of body the transport has delivered
    rbuf,       \* BufReader: delivered and not yet taken by lines()
    linebuf,    \* lines(): the line being reassembled
    events,     \* the items the event stream has yielded
    taken,      \* how many of them extract_text_from_events has taken
    texts,      \* the items extract_text_from_events has yielded
    request,    \* the Request the caller gives
    payload,    \* the body sent for it: None until it is serialized
    other,      \* the stream of a second stream_completion call
    model,      \* a Model of the catalog
    model_id,   \* what id() has returned for it: None before the call
    resolved    \* what from_id has returned for that id: None before the call

\* What a call leaves alone once its request is on its way.
aux == <<request, payload, other, model, model_id, resolved>>

vars == <<call, status, body, pc, result, transport, sent, rbuf, linebuf,
          events, taken, texts, aux>>

Init ==
    /\ call \in Calls
    /\ status \in Statuses
    /\ body \in IF call = "stream_completion" /\ IsSuccess(status)
                THEN StreamBodies \cup (DocBodies \ {BadUtf8Body})
                ELSE DocBodies
    /\ pc = "send"
    /\ result = None
    /\ transport = "open"
    /\ sent = 0
    /\ rbuf = <<>>
    /\ linebuf = <<>>
    /\ events = <<>>
    /\ taken = 0
    /\ texts = <<>>
    /\ request = BareRequest
    /\ payload = Some(SerializedRequest(call, request))
    /\ other = NoStream
    /\ model = DefaultModel
    /\ model_id = None
    /\ resolved = None

(***************************************************************************)
(* client.send(request).await?                                             *)
(***************************************************************************)
SendOk ==
    /\ pc = "send"
    /\ pc' = "response"
    /\ UNCHANGED <<aux, call, status, body, result, transport, sent, rbuf, linebuf,
                   events, taken, texts>>

SendFail ==
    /\ pc = "send"
    /\ pc' = "done"
    /\ result' = Some(Err([kind |-> "http"]))
    /\ transport' = "dead"
    /\ UNCHANGED <<aux, call, status, body, sent, rbuf, linebuf, events, taken, texts>>

(***************************************************************************)
(* complete: both arms read the body to its end, then decide.              *)
(***************************************************************************)
Complete ==
    /\ pc = "response"
    /\ call = "complete"
    /\ pc' = "done"
    /\ sent' = Len(body)
    /\ transport' = "closed"
    /\ result' = Some(CompleteResult(status, body))
    /\ UNCHANGED <<aux, call, status, body, rbuf, linebuf, events, taken, texts>>

(***************************************************************************)
(* stream_completion, failure arm.                                         *)
(***************************************************************************)
StreamError ==
    /\ pc = "response"
    /\ call = "stream_completion"
    /\ ~IsSuccess(status)
    /\ pc' = "done"
    /\ sent' = Len(body)
    /\ transport' = "closed"
    /\ result' = Some(StreamErrorResult(status, body))
    /\ UNCHANGED <<aux, call, status, body, rbuf, linebuf, events, taken, texts>>

\* response.body_mut().read_to_end(&mut body).await? fails.
ReadToEndFail ==
    /\ pc = "response"
    /\ call = "complete" \/ ~IsSuccess(status)
    /\ pc' = "done"
    /\ transport' = "dead"
    /\ result' = Some(Err(IoError))
    /\ UNCHANGED <<aux, call, status, body, sent, rbuf, linebuf, events, taken, texts>>

(***************************************************************************)
(* stream_completion, success arm: the stream is returned at once; the     *)
(* body is read as the stream is polled.                                   *)
(***************************************************************************)
\* StreamOpen with the body looked at first: an error document is returned as the
\* failure of the call.
StreamOpenPeeksBody ==
    /\ pc = "response"
    /\ call = "stream_completion"
    /\ IsSuccess(status)
    /\ IF EventFromStr(body).ok /\ EventFromStr(body).val.type = "Error"
       THEN /\ pc' = "done"
            /\ result' = Some(Err(api_error_to_err(EventFromStr(body).val.error)))
       ELSE /\ pc' = "streaming"
            /\ result' = Some(Ok("stream"))
    /\ UNCHANGED <<aux, call, status, body, transport, sent, rbuf, linebuf, events,
                   taken, texts>>

StreamOpen ==
    /\ pc = "response"
    /\ call = "stream_completion"
    /\ IsSuccess(status)
    /\ pc' = "streaming"
    /\ result' = Some(Ok("stream"))
    /\ UNCHANGED <<aux, call, status, body, transport, sent, rbuf, linebuf, events,
                   taken, texts>>

\* The transport delivers the next bytes of the body, when BufReader asks.
ReadChunk ==
    /\ pc = "streaming"
    /\ transport = "open"
    /\ rbuf = <<>>
    /\ \E k \in 1..MaxChunk :
          /\ sent + k <= Len(body)
          /\ rbuf' = SubSeq(body, sent + 1, sent + k)
          /\ sent' = sent + k
    /\ UNCHANGED <<aux, call, status, body, pc, result, transport, linebuf, events,
                   taken, texts>>

\* The server closes the body after the last byte.
Close ==
    /\ pc = "streaming"
    /\ transport = "open"
    /\ sent = Len(body)
    /\ transport' = "closed"
    /\ UNCHANGED <<aux, call, status, body, pc, result, sent, rbuf, linebuf, events,
                   taken, texts>>

\* The connection breaks, or the low-speed timeout aborts it.
TransportFail ==
    /\ pc = "streaming"
    /\ transport = "open"
    /\ rbuf = <<>>
    /\ transport' = "failed"
    /\ UNCHANGED <<aux, call, status, body, pc, result, sent, rbuf, linebuf, events,
                   taken, texts>>

\* Pipeline with an event grammar: a block delta is refused unless a block start was
\* yielded before it.
PipelineChecksGrammar(line) ==
    LET mapped == FilterMapLine(line)
        refused == /\ mapped.some
                   /\ mapped.val.ok
                   /\ mapped.val.val.type = "ContentBlockDelta"
                   /\ ~\E i \in 1..Len(events) :
                          events[i].ok /\ events[i].val.type = "ContentBlockStart"
        item == IF refused THEN Some(Err([kind |-> "grammar"])) ELSE mapped
    IN
    /\ events' = Yield(events, item)
    /\ taken' = Len(events')
    /\ texts' = IF item.some THEN Yield(texts, ExtractItem(item.val)) ELSE texts

\* One item of reader.lines() goes through the closure of stream_completion and,
\* if it yields an item, through the closure of extract_text_from_events.
Pipeline(line) ==
    LET mapped == FilterMapLine(line) IN
    /\ events' = Yield(events, mapped)
    /\ taken' = Len(events')
    /\ texts' = IF mapped.some THEN Yield(texts, ExtractItem(mapped.val)) ELSE texts

FirstNL(bytes) ==
    IF \E i \in 1..Len(bytes) : bytes[i] = NL
    THEN CHOOSE i \in 1..Len(bytes) :
            bytes[i] = NL /\ \A k \in 1..(i - 1) : bytes[k] # NL
    ELSE 0

\* PollLine with the line made of the current chunk alone.
PollLineNoReassembly ==
    /\ pc = "streaming"
    /\ rbuf # <<>>
    /\ LET i == FirstNL(rbuf) IN
         IF i = 0
         THEN /\ linebuf' = linebuf \o rbuf
              /\ rbuf' = <<>>
              /\ UNCHANGED <<events, taken, texts>>
         ELSE /\ Pipeline(Ok(SubSeq(rbuf, 1, i - 1)))
              /\ linebuf' = <<>>
              /\ rbuf' = SubSeq(rbuf, i + 1, Len(rbuf))
    /\ UNCHANGED <<aux, call, status, body, pc, result, transport, sent>>

\* PollLine with the stream ended by a message_stop frame.
PollLineStopsAtMessageStop ==
    /\ pc = "streaming"
    /\ rbuf # <<>>
    /\ LET i == FirstNL(rbuf) IN
         IF i = 0
         THEN /\ linebuf' = linebuf \o rbuf
              /\ rbuf' = <<>>
              /\ pc' = pc
              /\ UNCHANGED <<events, taken, texts>>
         ELSE /\ Pipeline(Ok(linebuf \o SubSeq(rbuf, 1, i - 1)))
              /\ linebuf' = <<>>
              /\ rbuf' = SubSeq(rbuf, i + 1, Len(rbuf))
              /\ pc' = IF FilterMapLine(Ok(linebuf \o SubSeq(rbuf, 1, i - 1)))
                            = Some(Ok([type |-> "MessageStop"]))
                       THEN "ended" ELSE pc
    /\ UNCHANGED <<aux, call, status, body, result, transport, sent>>

\* lines() takes buffered bytes up to the first newline.
PollLine ==
    /\ pc = "streaming"
    /\ rbuf # <<>>
    /\ LET i == FirstNL(rbuf) IN
         IF i = 0
         THEN /\ linebuf' = linebuf \o rbuf
              /\ rbuf' = <<>>
              /\ UNCHANGED <<events, taken, texts>>
         ELSE /\ Pipeline(Ok(linebuf \o SubSeq(rbuf, 1, i - 1)))
              /\ linebuf' = <<>>
              /\ rbuf' = SubSeq(rbuf, i + 1, Len(rbuf))
    /\ UNCHANGED <<aux, call, status, body, pc, result, transport, sent>>

\* lines() reads end of file: a last line without newline is still a line.
PollEof ==
    /\ pc = "streaming"
    /\ rbuf = <<>>
    /\ transport \in {"closed", "dead"}
    /\ IF linebuf # <<>>
       THEN /\ Pipeline(Ok(linebuf))
            /\ linebuf' = <<>>
            /\ pc' = pc
       ELSE /\ pc' = "ended"
            /\ UNCHANGED <<linebuf, events, taken, texts>>
    /\ UNCHANGED <<aux, call, status, body, result, transport, sent, rbuf>>

\* PollError with the failure taken for the end of the body.
PollErrorSilentEnd ==
    /\ pc = "streaming"
    /\ rbuf = <<>>
    /\ transport = "failed"
    /\ linebuf' = <<>>
    /\ transport' = "dead"
    /\ UNCHANGED <<aux, call, status, body, pc, result, sent, rbuf, events, taken,
                   texts>>

\* lines() reads an error.
PollError ==
    /\ pc = "streaming"
    /\ rbuf = <<>>
    /\ transport = "failed"
    /\ Pipeline(Err(IoError))
    /\ linebuf' = <<>>
    /\ transport' = "dead"
    /\ UNCHANGED <<aux, call, status, body, pc, result, sent, rbuf>>

Next ==
    \/ SendOk
    \/ SendFail
    \/ Complete
    \/ StreamError
    \/ ReadToEndFail
    \/ StreamOpen
    \/ ReadChunk
    \/ Close
    \/ TransportFail
    \/ PollLine
    \/ PollEof
    \/ PollError

Spec == Init /\ [][Next]_vars

(***************************************************************************)
(* extract_text_from_events on its own: the caller hands it any stream of  *)
(* Result<Event>, here every sequence of at most MaxEvents items.          *)
(***************************************************************************)
ExtractInputs ==
    {EventFromStr(j) : j \in {PingJson, MessageStopJson, MessageStartJson,
                              MessageDeltaJson, BlockStartTextJson, BlockStartToolJson,
                              BlockDeltaTextJson, BlockDeltaInputJson, BlockStopJson,
                              ErrorJson, TruncatedJson}}
        \cup {Err(IoError)}

InitExtract ==
    /\ call = "extract_text_from_events"
    /\ status = 0
    /\ body = <<>>
    /\ pc = "extract"
    /\ result = None
    /\ transport = "closed"
    /\ sent = 0
    /\ rbuf = <<>>
    /\ linebuf = <<>>
    /\ events \in UNION {[1..n -> ExtractInputs] : n \in 0..MaxEvents}
    /\ taken = 0
    /\ texts = <<>>
    /\ request = BareRequest
    /\ payload = None
    /\ other = NoStream
    /\ model = DefaultModel
    /\ model_id = None
    /\ resolved = None

\* One poll: the next item of the given stream goes through the closure.
ExtractPoll ==
    /\ pc = "extract"
    /\ taken < Len(events)
    /\ taken' = taken + 1
    /\ texts' = Yield(texts, ExtractItem(events[taken + 1]))
    /\ UNCHANGED <<aux, call, status, body, pc, result, transport, sent, rbuf, linebuf,
                   events>>

\* The given stream has ended, and so does the returned one.
ExtractEnd ==
    /\ pc = "extract"
    /\ taken = Len(events)
    /\ pc' = "extracted"
    /\ UNCHANGED <<aux, call, status, body, result, transport, sent, rbuf, linebuf,
                   events, taken, texts>>

NextExtract ==
    \/ ExtractPoll
    \/ ExtractEnd

SpecExtract == InitExtract /\ [][NextExtract]_vars

(***************************************************************************)
(* What the claims are stated against: the body read as a whole.           *)
(***************************************************************************)
\* The lines of a text: the pieces between newlines; what follows the last
\* newline is a line only if it is not empty.
RECURSIVE SplitLines(_)
SplitLines(text) ==
    IF text = <<>> THEN <<>>
    ELSE IF FirstNL(text) = 0 THEN <<text>>
    ELSE <<SubSeq(text, 1, FirstNL(text) - 1)>>
            \o SplitLines(SubSeq(text, FirstNL(text) + 1, Len(text)))

EndsWithNL(text) == text # <<>> /\ text[Len(text)] = NL
\* The lines of a text that are ended by a newline, and what follows them.
CompleteLines(text) ==
    IF text = <<>> \/ EndsWithNL(text)
    THEN SplitLines(text)
    ELSE SubSeq(SplitLines(text), 1, Len(SplitLines(text)) - 1)
Remainder(text) ==
    IF text = <<>> \/ EndsWithNL(text) THEN <<>>
    ELSE SplitLines(text)[Len(SplitLines(text))]

IsDataLine(line) == StartsWith(line, Prefix)
Payload(line) == SubSeq(line, Len(Prefix) + 1, Len(line))
\* The decode result of each line that begins with the prefix, in line order.
Frames(ls) ==
    [i \in 1..Len(SelectSeq(ls, IsDataLine)) |->
        EventFromStr(Payload(SelectSeq(ls, IsDataLine)[i]))]

IsPrefixOf(s, t) == Len(s) <= Len(t) /\ s = SubSeq(t, 1, Len(s))

\* The stream is being read and no read has failed.
CleanStream == pc \in {"streaming", "ended"} /\ transport \in {"open", "closed"}
CleanEnd == pc = "ended" /\ transport = "closed"

\* The bytes lines() has taken from the reader, and the lines it has made of them.
TakenText == SubSeq(body, 1, sent - Len(rbuf))
Flushed == transport = "closed" /\ rbuf = <<>> /\ linebuf = <<>>
LinesTaken == IF Flushed THEN SplitLines(TakenText) ELSE CompleteLines(TakenText)

C3_DecodeFailureIsAnItem ==
    CleanEnd =>
        LET frames == SelectSeq(SplitLines(body), IsDataLine) IN
        /\ Len(events) = Len(frames)
        /\ \A i \in 1..Len(frames) :
              ~EventFromStr(Payload(frames[i])).ok =>
                  /\ events[i] = Err([kind |-> "json"])
                  /\ \A k \in (i + 1)..Len(frames) :
                        events[k] = EventFromStr(Payload(frames[k]))

C3_Witness ==
    /\ CleanEnd
    /\ Len(events) = 2
    /\ ~events[1].ok
    /\ events[2].ok

C9_ChunkingIndependent ==
    CleanStream =>
        /\ events = Frames(LinesTaken)
        /\ ~Flushed => linebuf = Remainder(TakenText)

\* No chunk is longer than MaxChunk, so this line reached the decoder in pieces.
C9_Witness ==
    /\ CleanEnd
    /\ MaxChunk < Len(Prefix)
    /\ body = Prefix \o PingJson \o <<NL>>
    /\ events = <<Ok([type |-> "Ping"])>>

\* C10: the event stream ends only once the transport has closed the body and all of
\* it has been decoded; a MessageStop or Error event does not end it, and the end
\* adds no item.
C10_EndsAtClose ==
    /\ pc = "ended" =>
          /\ transport \in {"closed", "dead"}
          /\ rbuf = <<>>
          /\ linebuf = <<>>
    /\ CleanEnd =>
          /\ sent = Len(body)
          /\ Len(events) = Len(SelectSeq(SplitLines(body), IsDataLine))
    /\ (CleanStream /\ ~Flushed) => pc = "streaming"

C10_Witness ==
    /\ CleanEnd
    /\ Len(events) = 2
    /\ events[1] = Ok([type |-> "MessageStop"])
    /\ events[2] = Ok([type |-> "Ping"])

(***************************************************************************)
(* The failure results of the two calls.                                   *)
(***************************************************************************)
\* The call has returned after reading the whole body.
BodyRead == pc = "done" /\ transport = "closed"
\* {"type": "error", "error": {"type": ..., "message": ...}}
IsErrorDocument(text) == EventFromStr(text).ok /\ EventFromStr(text).val.type = "Error"
IsOtherEvent(text) == EventFromStr(text).ok /\ EventFromStr(text).val.type # "Error"
\* The error carries the status and the body text.
Carries(err, code, text) ==
    /\ "status" \in DOMAIN err
    /\ "body" \in DOMAIN err
    /\ err.status = code
    /\ err.body = text

\* C4: a non-success response whose body is an error document is returned as a
\* failure made of that document's error type and message, by complete and by
\* stream_completion alike.
C4_UniformProtocolError ==
    (BodyRead /\ ~IsSuccess(status) /\ IsErrorDocument(body)) =>
        result = Some(Err(api_error_to_err(EventFromStr(body).val.error)))

\* C5 as claimed: on a non-success status stream_completion returns, for every body,
\* the failure of exactly one of three cases: the error of an error document, the
\* malformed-error-response failure of a body that decodes as another event, or the
\* raw-status failure, with status and body text, of a body that does not decode.
C5_ThreeCasesCoverEveryBody ==
    (BodyRead /\ call = "stream_completion" /\ ~IsSuccess(status)) =>
        /\ IsErrorDocument(body) =>
              result = Some(Err(api_error_to_err(EventFromStr(body).val.error)))
        /\ IsOtherEvent(body) => result = Some(Err(UnexpectedSuccess(body)))
        /\ ~EventFromStr(body).ok => result = Some(Err(FailedToConnect(status, body)))

\* C5, amended: the three cases are exclusive and cover every body that is valid
\* UTF-8; a body that is not valid UTF-8 fails with the conversion error instead.
C5_ThreeCasesCoverText ==
    (BodyRead /\ call = "stream_completion" /\ ~IsSuccess(status)) =>
        /\ result.some /\ ~result.val.ok
        /\ FromUtf8(body).ok =>
              /\ result.val.err.kind
                    \in {"api_error", "unexpected_success", "failed_to_connect"}
              /\ result.val.err.kind = "api_error" <=> IsErrorDocument(body)
              /\ result.val.err.kind = "unexpected_success" <=> IsOtherEvent(body)
              /\ result.val.err.kind = "failed_to_connect" <=> ~EventFromStr(body).ok
              /\ IsErrorDocument(body) =>
                    result.val.err = api_error_to_err(EventFromStr(body).val.error)
              /\ IsOtherEvent(body) => result.val.err = UnexpectedSuccess(body)
              /\ ~EventFromStr(body).ok =>
                    result.val.err = FailedToConnect(status, body)
        /\ ~FromUtf8(body).ok => result.val.err = [kind |-> "utf8"]

C5_Witness ==
    /\ BodyRead
    /\ call = "stream_completion"
    /\ status = 529
    /\ body = MessageStopJson
    /\ result = Some(Err(UnexpectedSuccess(MessageStopJson)))

\* The response is neither what a success should be nor an error document.
MalformedResponse ==
    \/ call = "complete" /\ IsSuccess(status) /\ ~ResponseFromSlice(body).ok
    \/ ~IsSuccess(status) /\ ~IsErrorDocument(body)

IsErrorEvent(item) == item.ok /\ item.val.type = "Error"
IsTextEvent(item) ==
    /\ item.ok
    /\ \/ item.val.type = "ContentBlockStart" /\ item.val.content_block.type = "Text"
       \/ item.val.type = "ContentBlockDelta" /\ item.val.delta.type = "TextDelta"
TextOf(item) ==
    IF item.val.type = "ContentBlockStart"
    THEN item.val.content_block.text
    ELSE item.val.delta.text
\* Passed on as an item: a text, an Error event, an upstream failure.
IsProjected(item) == IsTextEvent(item) \/ IsErrorEvent(item) \/ ~item.ok
ProjectionOf(item) ==
    IF IsTextEvent(item) THEN Ok(TextOf(item))
    ELSE IF IsErrorEvent(item) THEN Err(api_error_to_err(item.val.error))
    ELSE item
Projected(items) ==
    [i \in 1..Len(SelectSeq(items, IsProjected)) |->
        ProjectionOf(SelectSeq(items, IsProjected)[i])]
TextsOnly(items) ==
    [i \in 1..Len(SelectSeq(items, IsTextEvent)) |->
        Ok(TextOf(SelectSeq(items, IsTextEvent)[i]))]

HasError(items) == \E i \in 1..Len(items) : IsErrorEvent(items[i])
FirstError(items) ==
    CHOOSE i \in 1..Len(items) :
        IsErrorEvent(items[i]) /\ \A k \in 1..(i - 1) : ~IsErrorEvent(items[k])
\* Events only, up to the first Error event.
EventsUpToError(items) ==
    HasError(items) /\ \A k \in 1..FirstError(items) : items[k].ok

\* Events only, one of them an Error event.
EventsWithOneError(items) ==
    /\ \A k \in 1..Len(items) : items[k].ok
    /\ Cardinality({k \in 1..Len(items) : IsErrorEvent(items[k])}) = 1

\* C2 as claimed: the texts before the Error, one failure carrying the ApiError, and
\* nothing after it, whatever events follow.
C2_NothingAfterError ==
    (pc = "extracted" /\ EventsWithOneError(events)) =>
        texts = TextsOnly(SubSeq(events, 1, FirstError(events) - 1))
                    \o <<Err(api_error_to_err(events[FirstError(events)].val.error))>>

\* C2, amended: the texts before the Error, then one failure carrying the ApiError;
\* the sequence is not closed, and the events after the Error are projected as they
\* would be without it.
C2_ErrorThenRest ==
    (pc = "extracted" /\ EventsUpToError(events)) =>
        texts = TextsOnly(SubSeq(events, 1, FirstError(events) - 1))
                    \o <<Err(api_error_to_err(events[FirstError(events)].val.error))>>
                    \o Projected(SubSeq(events, FirstError(events) + 1, Len(events)))

C2_Witness ==
    /\ pc = "extracted"
    /\ Len(events) = 3
    /\ IsTextEvent(events[1])
    /\ IsErrorEvent(events[2])
    /\ IsTextEvent(events[3])
    /\ texts = <<Ok("Hello"),
                 Err([kind |-> "api_error", error_type |-> "overloaded_error",
                      message |-> "busy"]),
                 Ok(" world")>>

\* C7: without Error events and upstream failures, the items yielded are the texts
\* of the text block starts and the text deltas taken so far, one each, in order;
\* every other event yields nothing.
C7_TextsOnly ==
    (pc \in {"extract", "extracted"}
        /\ \A i \in 1..taken : events[i].ok /\ ~IsErrorEvent(events[i])) =>
        texts = TextsOnly(SubSeq(events, 1, taken))

C7_Witness ==
    /\ pc = "extracted"
    /\ Len(events) = 3
    /\ events[1].ok /\ events[1].val.type = "ContentBlockStart"
    /\ events[2].ok /\ events[2].val.type = "ContentBlockDelta"
    /\ events[2].val.delta.type = "InputJsonDelta"
    /\ events[3].ok /\ events[3].val.type = "ContentBlockDelta"
    /\ texts = <<Ok("Hello"), Ok(" world")>>

(***************************************************************************)
(* The Request Encoder on its own: each call serializes the request it is  *)
(* given before anything is sent.                                          *)
(***************************************************************************)
InitEncode ==
    /\ call \in Calls
    /\ status = 0
    /\ body = <<>>
    /\ pc = "encode"
    /\ result = None
    /\ transport = "closed"
    /\ sent = 0
    /\ rbuf = <<>>
    /\ linebuf = <<>>
    /\ events = <<>>
    /\ taken = 0
    /\ texts = <<>>
    /\ request \in Requests
    /\ payload = None
    /\ other = NoStream
    /\ model = DefaultModel
    /\ model_id = None
    /\ resolved = None

\* complete: serde_json::to_string(&request)?
EncodeRequest ==
    /\ pc = "encode"
    /\ call = "complete"
    /\ payload' = Some(SerializeRequest(request))
    /\ pc' = "send"
    /\ UNCHANGED <<call, status, body, result, transport, sent, rbuf, linebuf,
                   events, taken, texts, request, other, model, model_id,
                   resolved>>

\* stream_completion: the request is wrapped in a StreamingRequest first.
EncodeStreamingRequest ==
    /\ pc = "encode"
    /\ call = "stream_completion"
    /\ payload' = Some(SerializeStreamingRequest([base |-> request, stream |-> TRUE]))
    /\ pc' = "send"
    /\ UNCHANGED <<call, status, body, result, transport, sent, rbuf, linebuf,
                   events, taken, texts, request, other, model, model_id,
                   resolved>>

NextEncode ==
    \/ EncodeRequest
    \/ EncodeStreamingRequest

SpecEncode == InitEncode /\ [][NextEncode]_vars

\* A member value that is null.
HasNull(v) == \E k \in DOMAIN v.o : v.o[k].j = "null"

\* C11: in the payload encoded from a request, by either call, an optional member
\* that is unset is neither a key nor a null: tools, tool_choice, system, metadata,
\* stop_sequences, temperature, top_k, top_p, and user_id inside a set metadata.
C11_UnsetMembersAbsent ==
    payload.some =>
        LET sentv == payload.val IN
        /\ request.tools = <<>> => ~Has(sentv, "tools")
        /\ ~request.tool_choice.some => ~Has(sentv, "tool_choice")
        /\ ~request.system.some => ~Has(sentv, "system")
        /\ ~request.metadata.some => ~Has(sentv, "metadata")
        /\ request.stop_sequences = <<>> => ~Has(sentv, "stop_sequences")
        /\ ~request.temperature.some => ~Has(sentv, "temperature")
        /\ ~request.top_k.some => ~Has(sentv, "top_k")
        /\ ~request.top_p.some => ~Has(sentv, "top_p")
        /\ ~HasNull(sentv)
        /\ (request.metadata.some /\ ~request.metadata.val.user_id.some) =>
              /\ ~Has(sentv.o["metadata"], "user_id")
              /\ ~HasNull(sentv.o["metadata"])

\* C12: the item yielded for a frame is the decode result of that frame's payload
\* alone: a payload that decodes is yielded as Ok whatever frames came before it, and
\* two frames of one stream with the same payload yield the same item.
C12_NoGrammar ==
    CleanStream =>
        LET frames == SelectSeq(LinesTaken, IsDataLine) IN
        /\ Len(events) <= Len(frames)
        /\ \A i \in 1..Len(events) :
              /\ EventFromStr(Payload(frames[i])).ok =>
                    events[i] = Ok(EventFromStr(Payload(frames[i])).val)
              /\ \A k \in 1..Len(events) :
                    Payload(frames[i]) = Payload(frames[k]) => events[i] = events[k]

\* A block delta right after the stop of the block, with no block start before it.
C12_Witness ==
    /\ CleanEnd
    /\ Len(events) = 2
    /\ events[1] = Ok([type |-> "ContentBlockStop", index |-> 0])
    /\ events[2].ok
    /\ events[2].val.type = "ContentBlockDelta"

(***************************************************************************)
(* Two stream_completion calls whose streams are read at the same time.    *)
(* Each call builds its own BufReader, lines() and closures (src lines     *)
(* 157-171), so the second stream has the fields of the first.             *)
(***************************************************************************)
TwoBodies ==
    {BodyOf(<<Prefix \o BlockStartTextJson, Prefix \o ErrorJson>>, TRUE),
     BodyOf(<<Prefix \o BlockDeltaTextJson, Prefix \o TruncatedJson>>, FALSE),
     BodyOf(<<EventFieldLine, Prefix \o BlockDeltaTextJson>>, TRUE)}

InitTwo ==
    /\ call = "stream_completion"
    /\ status = 200
    /\ body \in TwoBodies
    /\ pc = "streaming"
    /\ result = Some(Ok("stream"))
    /\ transport = "open"
    /\ sent = 0
    /\ rbuf = <<>>
    /\ linebuf = <<>>
    /\ events = <<>>
    /\ taken = 0
    /\ texts = <<>>
    /\ request = BareRequest
    /\ payload = Some(SerializedRequest(call, request))
    /\ other \in {StreamOf(text) : text \in TwoBodies}
    /\ model = DefaultModel
    /\ model_id = None
    /\ resolved = None

OtherReadChunk ==
    /\ other.pc = "streaming"
    /\ other.transport = "open"
    /\ other.rbuf = <<>>
    /\ \E k \in 1..MaxChunk :
          /\ other.sent + k <= Len(other.body)
          /\ other' = [other EXCEPT
                          !.rbuf = SubSeq(other.body, other.sent + 1, other.sent + k),
                          !.sent = other.sent + k]
    /\ UNCHANGED <<call, status, body, pc, result, transport, sent, rbuf, linebuf,
                   events, taken, texts, request, payload, model, model_id,
                   resolved>>

OtherClose ==
    /\ other.pc = "streaming"
    /\ other.transport = "open"
    /\ other.sent = Len(other.body)
    /\ other' = [other EXCEPT !.transport = "closed"]
    /\ UNCHANGED <<call, status, body, pc, result, transport, sent, rbuf, linebuf,
                   events, taken, texts, request, payload, model, model_id,
                   resolved>>

\* Pipeline, for the second stream.
OtherPipeline(s, line) ==
    LET mapped == FilterMapLine(line) IN
    [s EXCEPT !.events = Yield(s.events, mapped),
              !.texts = IF mapped.some THEN Yield(s.texts, ExtractItem(mapped.val))
                        ELSE s.texts]

\* OtherPollLine with one partial-line buffer for all streams.
OtherPollLineSharedBuffer ==
    /\ other.pc = "streaming"
    /\ other.rbuf # <<>>
    /\ LET i == FirstNL(other.rbuf) IN
         other' =
            IF i = 0
            THEN [other EXCEPT !.linebuf = linebuf \o other.linebuf \o other.rbuf,
                               !.rbuf = <<>>]
            ELSE [OtherPipeline(other,
                      Ok(linebuf \o other.linebuf \o SubSeq(other.rbuf, 1, i - 1)))
                    EXCEPT !.linebuf = <<>>,
                           !.rbuf = SubSeq(other.rbuf, i + 1, Len(other.rbuf))]
    /\ UNCHANGED <<call, status, body, pc, result, transport, sent, rbuf, linebuf,
                   events, taken, texts, request, payload, model, model_id,
                   resolved>>

OtherPollLine ==
    /\ other.pc = "streaming"
    /\ other.rbuf # <<>>
    /\ LET i == FirstNL(other.rbuf) IN
         other' =
            IF i = 0
            THEN [other EXCEPT !.linebuf = other.linebuf \o other.rbuf,
                               !.rbuf = <<>>]
            ELSE [OtherPipeline(other, Ok(other.linebuf \o SubSeq(other.rbuf, 1, i - 1)))
                    EXCEPT !.linebuf = <<>>,
                           !.rbuf = SubSeq(other.rbuf, i + 1, Len(other.rbuf))]
    /\ UNCHANGED <<call, status, body, pc, result, transport, sent, rbuf, linebuf,
                   events, taken, texts, request, payload, model, model_id,
                   resolved>>

OtherPollEof ==
    /\ other.pc = "streaming"
    /\ other.rbuf = <<>>
    /\ other.transport = "closed"
    /\ other' = IF other.linebuf # <<>>
                THEN [OtherPipeline(other, Ok(other.linebuf)) EXCEPT !.linebuf = <<>>]
                ELSE [other EXCEPT !.pc = "ended"]
    /\ UNCHANGED <<call, status, body, pc, result, transport, sent, rbuf, linebuf,
                   events, taken, texts, request, payload, model, model_id,
                   resolved>>

NextTwo ==
    \/ ReadChunk
    \/ Close
    \/ PollLine
    \/ PollEof
    \/ OtherReadChunk
    \/ OtherClose
    \/ OtherPollLine
    \/ OtherPollEof

SpecTwo == InitTwo /\ [][NextTwo]_vars

\* What a stream's items are when its bytes are read as a whole.
OtherTakenText == SubSeq(other.body, 1, other.sent - Len(other.rbuf))
OtherFlushed == other.transport = "closed" /\ other.rbuf = <<>> /\ other.linebuf = <<>>
OtherLinesTaken ==
    IF OtherFlushed THEN SplitLines(OtherTakenText) ELSE CompleteLines(OtherTakenText)

\* C13: two streams given the same body yield the same events and the same texts once
\* both have ended, however their reads were interleaved and cut; and at every moment
\* the items of each stream are those of the bytes that stream alone has taken,
\* whatever the other stream has read or holds.
C13_StreamsIndependent ==
    /\ (pc = "ended" /\ other.pc = "ended" /\ body = other.body) =>
          /\ events = other.events
          /\ texts = other.texts
    /\ events = Frames(LinesTaken)
    /\ texts = Projected(events)
    /\ other.events = Frames(OtherLinesTaken)
    /\ other.texts = Projected(other.events)

\* Both streams have decoded the same body to the end, and it held a text and an error.
C13_Witness ==
    /\ pc = "ended"
    /\ other.pc = "ended"
    /\ body = other.body
    /\ events = other.events
    /\ texts = other.texts
    /\ Len(texts) = 2
    /\ texts[1].ok
    /\ ~texts[2].ok

\* The number of items the first n given items are projected to.
OutputsUpTo(n) == Len(SelectSeq(SubSeq(events, 1, n), IsProjected))

\* C14: extract_text_from_events yields at most one item for each item it has taken
\* and holds none back; an upstream failure is yielded as it is, at the place its
\* position among the given items gives it, and so is every other item yielded.
C14_FailurePassedThrough ==
    pc \in {"extract", "extracted"} =>
        /\ Len(texts) <= taken
        /\ Len(texts) = OutputsUpTo(taken)
        /\ \A i \in 1..taken :
              /\ OutputsUpTo(i) - OutputsUpTo(i - 1) \in {0, 1}
              /\ ~events[i].ok => texts[OutputsUpTo(i)] = events[i]
              /\ IsProjected(events[i]) => texts[OutputsUpTo(i)] = ProjectionOf(events[i])

\* A read failure between two texts.
C14_Witness ==
    /\ pc = "extracted"
    /\ Len(events) = 3
    /\ events[2] = Err(IoError)
    /\ texts = <<Ok("Hello"), Err(IoError), Ok(" world")>>

\* The eight values of "type" that name an Event variant.
EventTypes ==
    {"message_start", "content_block_start", "content_block_delta",
     "content_block_stop", "message_delta", "message_stop", "ping", "error"}

\* A complete JSON object whose "type" is a string that names no variant.
UnknownType(text) ==
    /\ WellFormed(text)
    /\ Has(ParseJson(text).val, "type")
    /\ IsStr(ParseJson(text).val.o["type"])
    /\ ParseJson(text).val.o["type"].s \notin EventTypes

\* C15: a frame whose payload is well-formed JSON with a "type" that is none of the
\* eight event types yields a decode failure in its place: every frame taken has its
\* item, and the item of such a frame is an Err.
C15_UnknownTypeIsFailure ==
    CleanStream =>
        LET frames == SelectSeq(LinesTaken, IsDataLine) IN
        /\ Len(events) = Len(frames)
        /\ \A i \in 1..Len(frames) :
              UnknownType(Payload(frames[i])) => events[i] = Err([kind |-> "json"])

C15_Witness ==
    /\ CleanEnd
    /\ SplitLines(body) = <<Prefix \o UnknownTypeJson, Prefix \o PingJson>>
    /\ UnknownType(UnknownTypeJson)
    /\ events = <<Err([kind |-> "json"]), Ok([type |-> "Ping"])>>

\* C16: a read failure of the transport is yielded as one Err item, after the items
\* of every line received whole before it; until it is yielded the stream does not
\* end, and once it is yielded it is the last item.
C16_ReadFailureIsAnItem ==
    pc \in {"streaming", "ended"} =>
        /\ transport = "failed" =>
              /\ pc = "streaming"
              /\ events = Frames(CompleteLines(SubSeq(body, 1, sent)))
        /\ transport = "dead" =>
              events = Frames(CompleteLines(SubSeq(body, 1, sent))) \o <<Err(IoError)>>

\* The transport failed after one whole frame and before the rest of the body.
C16_Witness ==
    /\ pc = "ended"
    /\ transport = "dead"
    /\ sent < Len(body)
    /\ events = <<Ok([type |-> "Ping"]), Err(IoError)>>
    /\ texts = <<Err(IoError)>>

\* C17: the event stream yields an error frame as a decoded event, Ok(Event::Error)
\* with the frame's error, and decodes the frames after it; the failure made of that
\* error is an item of extract_text_from_events only.
C17_ErrorFrameIsAnEvent ==
    CleanStream =>
        LET frames == SelectSeq(LinesTaken, IsDataLine) IN
        /\ Len(events) = Len(frames)
        /\ \A i \in 1..Len(frames) :
              Payload(frames[i]) = ErrorJson =>
                  /\ events[i] = Ok([type |-> "Error",
                                     error |-> [error_type |-> "overloaded_error",
                                                message |-> "busy"]])
                  /\ texts[OutputsUpTo(i)] = Err(api_error_to_err(events[i].val.error))

\* An error frame, then a text frame that is still decoded.
C17_Witness ==
    /\ CleanEnd
    /\ Len(events) = 2
    /\ events[1].ok /\ events[1].val.type = "Error"
    /\ events[2].ok /\ events[2].val.type = "ContentBlockDelta"
    /\ Len(texts) = 2
    /\ ~texts[1].ok
    /\ texts[2].ok

\* C18: stream_completion returns a stream exactly when the response has a success
\* status.  With a status outside 200..299 it returns a failure whatever the body;
\* with a status inside it returns the stream whatever the body, and the only failure
\* it can return is that of a request no response came to.
C18_StreamIffSuccess ==
    call = "stream_completion" =>
        /\ pc \in {"send", "response"} => result = None
        /\ pc \in {"streaming", "ended"} =>
              /\ status \in 200..299
              /\ result = Some(Ok("stream"))
        /\ pc = "done" =>
              /\ result.some
              /\ ~result.val.ok
              /\ status \in 200..299 => result = Some(Err([kind |-> "http"]))
        /\ (result.some /\ status \notin 200..299) => ~result.val.ok

\* A success response whose body is a bare error document: the stream was returned
\* and has ended with no item.
C18_Witness ==
    /\ call = "stream_completion"
    /\ status = 200
    /\ body = ErrorJson
    /\ result = Some(Ok("stream"))
    /\ pc = "ended"
    /\ events = <<>>

(***************************************************************************)
(* The model catalog on its own: a caller takes the identifier of a model, *)
(* id() or tool_model_id(), and resolves it with from_id().                *)
(***************************************************************************)
InitModel ==
    /\ call = "from_id"
    /\ status = 0
    /\ body = <<>>
    /\ pc = "model"
    /\ result = None
    /\ transport = "closed"
    /\ sent = 0
    /\ rbuf = <<>>
    /\ linebuf = <<>>
    /\ events = <<>>
    /\ taken = 0
    /\ texts = <<>>
    /\ request = BareRequest
    /\ payload = None
    /\ other = NoStream
    /\ model \in Models
    /\ model_id = None
    /\ resolved = None

Id ==
    /\ pc = "model"
    /\ model_id' = Some(id(model))
    /\ pc' = "id"
    /\ UNCHANGED <<call, status, body, result, transport, sent, rbuf, linebuf, events,
                   taken, texts, request, payload, other, model, resolved>>

ToolModelId ==
    /\ pc = "model"
    /\ model_id' = Some(tool_model_id(model))
    /\ pc' = "tool_model_id"
    /\ UNCHANGED <<call, status, body, result, transport, sent, rbuf, linebuf, events,
                   taken, texts, request, payload, other, model, resolved>>

FromId ==
    /\ pc \in {"id", "tool_model_id"}
    /\ resolved' = Some(from_id(model_id.val))
    /\ pc' = IF pc = "id" THEN "from_id" ELSE "tool_from_id"
    /\ UNCHANGED <<call, status, body, result, transport, sent, rbuf, linebuf, events,
                   taken, texts, request, payload, other, model, model_id>>

NextModel ==
    \/ Id
    \/ ToolModelId
    \/ FromId

SpecModel == InitModel /\ [][NextModel]_vars

\* C19: for each of the four models of the catalog, from_id of the model's id() is
\* that model.
C19_FromIdOfId ==
    (pc = "from_id" /\ model.type # "Custom") => resolved = Some(Ok(model))

====
